---- MODULE Spec2Model ----
(***************************************************************************)
(* Room.tsx: the Room component of one participant (its React state, its   *)
(* socket.io socket, its player handle) and the events that drive it.      *)
(*                                                                         *)
(* Numbers.  played and loaded are fractions in [0,1]; they are kept in    *)
(* quarters (0..PlayedDenom), which are exact in IEEE doubles, as are      *)
(* their differences and their products with the integer durations used    *)
(* here, so the drift comparison of line 93 is computed exactly.  volume   *)
(* is kept in tenths.                                                      *)
(***************************************************************************)
EXTENDS Integers, Sequences, FiniteSets, TLC

VARIABLES
    state,        \* this.state of each Room component           (lines 47-65)
    mounted,      \* React lifecycle position of each component
    socket,       \* this.socket: "undefined", or the socket's connection status
    listening,    \* a "status" listener is registered on the socket (line 89)
    server,       \* "relay": the room's server is part of the model and
                  \* rebroadcasts; "environment": it is outside the model
    wire,         \* "update" messages on their way to a relaying server
    inbox,        \* "status" messages broadcast and not yet handled
    gesture,      \* the user holds the scrub control (mouse is down)
    unmounts,     \* calls of componentWillUnmount so far
    disconnects,  \* calls of socket.disconnect() so far
    last          \* what the last step did: handler, argument, emits, seeks

vars == <<state, mounted, socket, listening, server, wire, inbox, gesture, unmounts,
          disconnects, last>>

-----------------------------------------------------------------------------
(* Bounds *)

MaxWire == 1
MaxInbox == 2
MaxTeardown == 2

-----------------------------------------------------------------------------
(* Values *)

Participants == {"A", "B"}

\* fractions are counted in quarters
PlayedDenom == 4

\* the drift tolerance of line 93, in seconds
DriftTolerance == 2

DefaultURL == "https://youtu.be/Bi11Iid2hmo"
OtherURL == "https://youtu.be/other"
BadURL == "not-a-media-url"

\* ReactPlayer.canPlay(url)
canPlay(url) == url \in {DefaultURL, OtherURL}

Abs(x) == IF x < 0 THEN -x ELSE x

\* JavaScript truthiness of a number: 0 is falsy
Truthy(n) == n # 0

NoData == <<>>

\* the constructor's this.state
InitialState ==
    [url |-> DefaultURL, playing |-> TRUE, volume |-> 3, muted |-> TRUE,
     played |-> 0, loaded |-> 0, duration |-> 0, playbackRate |-> 1,
     loop |-> FALSE, ready |-> FALSE, buffering |-> FALSE, seeking |-> FALSE]

Fields == DOMAIN InitialState

\* a merge that adds an incoming played to the local one
Merge_accumulates(s, data) ==
    [f \in DOMAIN s |->
        IF f \in DOMAIN data
        THEN IF f = "played" THEN (s[f] + data[f]) % (PlayedDenom + 1) ELSE data[f]
        ELSE s[f]]

\* React's shallow merge of a partial state into the state
Merge(s, data) == [f \in DOMAIN s |-> IF f \in DOMAIN data THEN data[f] ELSE s[f]]

\* this.setState(data): merges while the component is mounted; on an unmounted
\* component React drops the update
setState(p, data) ==
    IF mounted[p] = "mounted" THEN Merge(state[p], data) ELSE state[p]

\* a first emit that carries the media and the transport fields only
Snapshot_partial(s) == [f \in {"url", "playing", "played"} |-> s[f]]

\* the payload of the first emit of componentDidMount
Snapshot(s) ==
    [f \in {"url", "playing", "volume", "muted", "played", "loaded", "duration",
            "playbackRate", "loop", "ready", "buffering", "seeking"} |-> s[f]]

\* socket.emit("update", data): socket.io sends it, or buffers it until
\* connected; an update sent to a server outside the model leaves the model
emit(p, data) ==
    IF server = "relay" THEN [wire EXCEPT ![p] = Append(@, data)] ELSE wire

\* two deltas are the same delta
SameDelta(d, e) == DOMAIN d = DOMAIN e /\ \A f \in DOMAIN d : d[f] = e[f]

\* the participants have each applied a different value of field f and each
\* has its update of f on the wire
RaceOn(f) ==
    /\ \A p \in Participants :
           /\ wire[p] # <<>>
           /\ f \in DOMAIN Head(wire[p])
           /\ Head(wire[p])[f] = state[p][f]
    /\ \E p, q \in Participants : state[p][f] # state[q][f]

\* the record of one step: the handler that ran, for whom, the delta it handled,
\* its argument, the updates it emitted, the seekTo calls it made, what it
\* logged; the fields of a status delta whose values the participant did not hold;
\* whether it handled the same delta as the step before it; whether a race on
\* playing has happened with no update of playing emitted since
Step(op, p, data, arg, emitted, seeks, log) ==
    [op |-> op, who |-> p, data |-> data, arg |-> arg, emitted |-> emitted,
     seeks |-> seeks, log |-> log,
     news |-> IF op = "status"
              THEN {f \in DOMAIN data : state[p][f] # data[f]}
              ELSE {},
     repeat |-> DOMAIN data # {} /\ last.who = p /\ SameDelta(last.data, data),
     raced |-> /\ \A i \in DOMAIN emitted : "playing" \notin DOMAIN emitted[i]
               /\ last.raced \/ RaceOn("playing")]

CanEmit(p) == Len(wire[p]) < MaxWire

Constructed(mode) ==
    /\ state = [p \in Participants |-> InitialState]
    /\ mounted = [p \in Participants |-> "constructed"]
    /\ socket = [p \in Participants |-> "undefined"]
    /\ listening = [p \in Participants |-> FALSE]
    /\ server = mode
    /\ wire = [p \in Participants |-> <<>>]
    /\ inbox = [p \in Participants |-> <<>>]
    /\ gesture = [p \in Participants |-> FALSE]
    /\ unmounts = [p \in Participants |-> 0]
    /\ disconnects = [p \in Participants |-> 0]
    /\ last = [op |-> "constructor", who |-> "A", data |-> NoData, arg |-> NoData,
               emitted |-> <<>>, seeks |-> <<>>, log |-> <<>>, news |-> {},
               repeat |-> FALSE,
               raced |-> FALSE]

Init == Constructed("environment")

-----------------------------------------------------------------------------
(* Lifecycle *)

componentDidMount(p) ==
    /\ mounted[p] = "constructed"
    /\ mounted' = [mounted EXCEPT ![p] = "mounted"]
    /\ socket' = [socket EXCEPT ![p] = "connecting"]
    /\ wire' = emit(p, Snapshot(state[p]))
    /\ listening' = [listening EXCEPT ![p] = TRUE]
    /\ last' = Step("componentDidMount", p, Snapshot(state[p]), NoData,
                    <<Snapshot(state[p])>>, <<>>, <<>>)
    /\ UNCHANGED <<state, server, inbox, gesture, unmounts, disconnects>>

\* socket.io-client: the connection (or, after a loss, the reconnection) completes
connect(p) ==
    /\ socket[p] \in {"connecting", "lost"}
    /\ socket' = [socket EXCEPT ![p] = "connected"]
    /\ last' = Step("connect", p, NoData, NoData, <<>>, <<>>, <<>>)
    /\ UNCHANGED <<state, mounted, listening, server, wire, inbox, gesture, unmounts,
                   disconnects>>

\* socket.io-client: the transport is lost; socket.connected becomes false and
\* the status messages in flight are gone
connectionLost(p) ==
    /\ socket[p] = "connected"
    /\ socket' = [socket EXCEPT ![p] = "lost"]
    /\ inbox' = [inbox EXCEPT ![p] = <<>>]
    /\ last' = Step("connectionLost", p, NoData, NoData, <<>>, <<>>, <<>>)
    /\ UNCHANGED <<state, mounted, listening, server, wire, gesture, unmounts, disconnects>>

\* lines 101-105: disconnect only a socket that is connected; the listener of
\* line 89 is not removed
componentWillUnmount(p) ==
    /\ mounted[p] \in {"mounted", "unmounted"}
    /\ unmounts[p] < MaxTeardown
    /\ unmounts' = [unmounts EXCEPT ![p] = @ + 1]
    /\ mounted' = [mounted EXCEPT ![p] = "unmounted"]
    /\ IF socket[p] = "connected"
         THEN /\ socket' = [socket EXCEPT ![p] = "closed"]
              /\ disconnects' = [disconnects EXCEPT ![p] = @ + 1]
              /\ inbox' = [inbox EXCEPT ![p] = <<>>]
         ELSE UNCHANGED <<socket, disconnects, inbox>>
    /\ gesture' = [gesture EXCEPT ![p] = FALSE]
    /\ last' = Step("componentWillUnmount", p, NoData, NoData, <<>>, <<>>, <<>>)
    /\ UNCHANGED <<state, listening, server, wire>>

-----------------------------------------------------------------------------
(* Inbound: the "status" listener, lines 89-98 *)

\* line 93
Drift(localPlayed, remotePlayed, duration) ==
    Abs(localPlayed - remotePlayed) * duration > DriftTolerance * PlayedDenom

\* a listener that tests the drift after it has merged the delta
statusSeeks_afterMerge(p, data) ==
    IF /\ "played" \in DOMAIN data
       /\ Truthy(data.played)
       /\ Drift(Merge(state[p], data).played, data.played, state[p].duration)
       /\ mounted[p] = "mounted"
    THEN <<[amount |-> data.played, type |-> "fraction"]>>
    ELSE <<>>

\* lines 92-96: the seekTo calls of the listener; this.player.current is the
\* player while the component is mounted, and null otherwise
statusSeeks(p, data) ==
    IF /\ "played" \in DOMAIN data
       /\ Truthy(data.played)
       /\ Drift(state[p].played, data.played, state[p].duration)
       /\ mounted[p] = "mounted"
    THEN <<[amount |-> data.played, type |-> "fraction"]>>
    ELSE <<>>

\* a listener that sees the delta and does not merge it
onStatus_dropsDelta(p, data) ==
    /\ listening[p]
    /\ socket[p] = "connected"
    /\ last' = Step("status", p, data, NoData, <<>>, statusSeeks(p, data), <<>>)
    /\ UNCHANGED <<state, mounted, socket, listening, server, wire, gesture, unmounts,
                   disconnects>>

onStatus(p, data) ==
    /\ listening[p]
    /\ socket[p] = "connected"
    /\ state' = [state EXCEPT ![p] = setState(p, data)]
    /\ last' = Step("status", p, data, NoData, <<>>, statusSeeks(p, data), <<>>)
    /\ UNCHANGED <<mounted, socket, listening, server, wire, gesture, unmounts, disconnects>>

-----------------------------------------------------------------------------
(* Outbound: updateState and the handlers that call it *)

\* an updateState that applies the delta locally and publishes nothing
updateState_localOnly(p, data) ==
    /\ wire' = wire
    /\ state' = [state EXCEPT ![p] = setState(p, data)]

\* lines 107-113
updateState(p, data) ==
    /\ wire' = IF socket[p] # "undefined" THEN emit(p, data) ELSE wire
    /\ state' = [state EXCEPT ![p] = setState(p, data)]

\* what updateState(data) emits
Emitted(p, data) == IF socket[p] # "undefined" THEN <<data>> ELSE <<>>

\* a UI or player event reaches a mounted component
Enabled(p) == mounted[p] = "mounted" /\ CanEmit(p)

\* a handler whose whole body is this.updateState(data)
Handler(op, p, data) ==
    /\ Enabled(p)
    /\ updateState(p, data)
    /\ last' = Step(op, p, data, NoData, Emitted(p, data), <<>>, <<>>)
    /\ UNCHANGED <<mounted, socket, listening, server, inbox, gesture, unmounts, disconnects>>

\* a load that keeps the progress of the previous media
NewMedia_keepsProgress(url) == [url |-> url, ready |-> FALSE, playing |-> TRUE]

\* lines 124-130
NewMedia(url) ==
    [url |-> url, ready |-> FALSE, played |-> 0, loaded |-> 0, playing |-> TRUE]

load(p, url) ==
    /\ updateState(p, NewMedia(url))
    /\ last' = Step("changeToURL", p, NewMedia(url), url,
                    Emitted(p, NewMedia(url)), <<>>, <<>>)

\* a change of media that skips the canPlay check
changeToURL_unchecked(p, url) ==
    /\ Enabled(p)
    /\ load(p, url)
    /\ UNCHANGED <<mounted, socket, listening, server, inbox, gesture, unmounts,
                   disconnects>>

\* lines 115-121
changeToURL(p, url) ==
    /\ Enabled(p)
    /\ IF canPlay(url)
         THEN load(p, url)
         ELSE /\ last' = Step("changeToURL", p, NoData, url, <<>>, <<>>,
                              <<"Error, cannot play url:">>)
              /\ UNCHANGED <<state, wire>>
    /\ UNCHANGED <<mounted, socket, listening, server, inbox, gesture, unmounts, disconnects>>

\* lines 133-135
handleSeekMouseDown(p) ==
    /\ Enabled(p)
    /\ ~gesture[p]
    /\ gesture' = [gesture EXCEPT ![p] = TRUE]
    /\ updateState(p, [seeking |-> TRUE])
    /\ last' = Step("handleSeekMouseDown", p, [seeking |-> TRUE], NoData,
                    Emitted(p, [seeking |-> TRUE]), <<>>, <<>>)
    /\ UNCHANGED <<mounted, socket, listening, server, inbox, unmounts, disconnects>>

\* lines 137-139
handleSeekChange(p, f) ==
    /\ Enabled(p)
    /\ gesture[p]
    /\ updateState(p, [played |-> f])
    /\ last' = Step("handleSeekChange", p, [played |-> f], f,
                    Emitted(p, [played |-> f]), <<>>, <<>>)
    /\ UNCHANGED <<mounted, socket, listening, server, inbox, gesture, unmounts, disconnects>>

\* lines 141-144; seekTo is called without a type
handleSeekMouseUp(p, f) ==
    /\ Enabled(p)
    /\ gesture[p]
    /\ gesture' = [gesture EXCEPT ![p] = FALSE]
    /\ updateState(p, [seeking |-> FALSE])
    /\ last' = Step("handleSeekMouseUp", p, [seeking |-> FALSE], f,
                    Emitted(p, [seeking |-> FALSE]),
                    <<[amount |-> f, type |-> "unspecified"]>>, <<>>)
    /\ UNCHANGED <<mounted, socket, listening, server, inbox, unmounts, disconnects>>

\* the ReactPlayer callbacks of lines 175-199
onReady(p) == Handler("onReady", p, [ready |-> TRUE])
onPlay(p) == Handler("onPlay", p, [playing |-> TRUE])
onPause(p) == Handler("onPause", p, [playing |-> FALSE])
onBuffer(p) == Handler("onBuffer", p, [buffering |-> TRUE])
onBufferEnd(p) == Handler("onBufferEnd", p, [buffering |-> FALSE])

\* the delta of an ended event that ignores loop
EndedDelta_stops(s) == [playing |-> FALSE]

\* lines 182-191
EndedDelta(s) == IF s.loop THEN [playing |-> TRUE, played |-> 0] ELSE [playing |-> FALSE]

onEnded(p) == Handler("onEnded", p, EndedDelta(state[p]))

\* a progress callback that does not look at seeking
onProgress_always(p, progress) == Handler("onProgress", p, progress)

\* lines 193-198
onProgress(p, progress) ==
    IF ~state[p].seeking
    THEN Handler("onProgress", p, progress)
    ELSE /\ Enabled(p)
         /\ last' = Step("onProgress", p, progress, NoData, <<>>, <<>>, <<>>)
         /\ UNCHANGED <<state, wire, mounted, socket, listening, server, inbox, gesture,
                        unmounts, disconnects>>

\* line 199
onDuration(p, duration) == Handler("onDuration", p, [duration |-> duration])

\* the buttons of lines 204 and 212
togglePlaying(p) == Handler("togglePlaying", p, [playing |-> ~state[p].playing])
toggleLoop(p) == Handler("toggleLoop", p, [loop |-> ~state[p].loop])

-----------------------------------------------------------------------------
(* The server side of the channel *)

\* the relaying server takes the next update of p off the wire and broadcasts
\* it as a status message to every connected participant, the sender included
serverRelay(p) ==
    /\ server = "relay"
    /\ socket[p] = "connected"
    /\ wire[p] # <<>>
    /\ \A q \in Participants : socket[q] = "connected" => Len(inbox[q]) < MaxInbox
    /\ wire' = [wire EXCEPT ![p] = Tail(@)]
    /\ inbox' = [q \in Participants |->
                    IF socket[q] = "connected"
                    THEN Append(inbox[q], Head(wire[p]))
                    ELSE inbox[q]]
    /\ last' = Step("serverRelay", p, Head(wire[p]), NoData, <<>>, <<>>, <<>>)
    /\ UNCHANGED <<state, mounted, socket, listening, server, gesture, unmounts,
                   disconnects>>

\* the next status message in flight to p arrives and the listener handles it
deliver(p) ==
    /\ inbox[p] # <<>>
    /\ onStatus(p, Head(inbox[p]))
    /\ inbox' = [inbox EXCEPT ![p] = Tail(@)]

\* the status deltas the server is seen to broadcast
StatusDeltas ==
    {[played |-> 0], [played |-> 3], [played |-> 3, loaded |-> 4, volume |-> 5],
     [seeking |-> TRUE], [playing |-> FALSE]}

\* a status message arrives and the listener handles it
serverStatus(p) == \E data \in StatusDeltas : onStatus(p, data) /\ UNCHANGED inbox

-----------------------------------------------------------------------------
(* The specification: one participant and the server *)

Solo == {"A"}
SeekTargets == {2, 4}
Progresses == {[played |-> 1, loaded |-> 4]}
Durations == {8}
URLs == {OtherURL, BadURL}

Next ==
    \E p \in Solo :
        \/ componentDidMount(p)
        \/ connect(p)
        \/ connectionLost(p)
        \/ componentWillUnmount(p)
        \/ serverStatus(p)
        \/ \E url \in URLs : changeToURL(p, url)
        \/ handleSeekMouseDown(p)
        \/ \E f \in SeekTargets : handleSeekChange(p, f)
        \/ \E f \in SeekTargets : handleSeekMouseUp(p, f)
        \/ onReady(p)
        \/ onPlay(p)
        \/ onPause(p)
        \/ onBuffer(p)
        \/ onBufferEnd(p)
        \/ onEnded(p)
        \/ \E progress \in Progresses : onProgress(p, progress)
        \/ \E duration \in Durations : onDuration(p, duration)
        \/ togglePlaying(p)
        \/ toggleLoop(p)

Spec == Init /\ [][Next]_vars

-----------------------------------------------------------------------------
(* The room: two participants and the relaying server, over a reliable     *)
(* ordered channel: the server relays every update it is sent by a         *)
(* connected participant, and every status message in flight arrives.      *)
(* The relay waits while an inbox is full, so its fairness is strong.      *)

RoomInit == Constructed("relay")

RoomNext ==
    \E p \in Participants :
        \/ componentDidMount(p)
        \/ connect(p)
        \/ togglePlaying(p)
        \/ serverRelay(p)
        \/ deliver(p)

RoomSpec ==
    /\ RoomInit
    /\ [][RoomNext]_vars
    /\ \A p \in Participants : SF_vars(serverRelay(p)) /\ WF_vars(deliver(p))

-----------------------------------------------------------------------------
(* Properties.  Every action records itself in last, so a step with        *)
(* last'.op = "status" is a run of the status listener on last'.data, with *)
(* the unprimed variables the state it found.                              *)

\* the participant of the last step
Who == last.who

StatusStep == last'.op = "status" /\ mounted[last'.who] = "mounted"

\* C1: while seeking is true, handling an inbound status delta leaves local
\* played and loaded as they were, and merges every other field of the delta.
C1_SeekingSuppression ==
    [][(StatusStep /\ state[last'.who].seeking) =>
        /\ state'[last'.who].played = state[last'.who].played
        /\ state'[last'.who].loaded = state[last'.who].loaded
        /\ \A f \in DOMAIN last'.data \ {"played", "loaded"} :
               state'[last'.who][f] = last'.data[f]]_vars

\* C2: an inbound status delta that carries played (0 included) makes the
\* listener seek exactly when duration > 0 and the drift
\* |local played - remote played| * duration exceeds 2 seconds.
C2_DriftGate ==
    [][(StatusStep /\ "played" \in DOMAIN last'.data) =>
        (last'.seeks # <<>> <=>
            /\ state[last'.who].duration > 0
            /\ Abs(state[last'.who].played - last'.data.played)
                   * state[last'.who].duration > 2 * PlayedDenom)]_vars

\* C3: between a participant's seek mouse-down and mouse-up (local seeking is
\* true), handling an inbound status delta calls no seekTo on the player.
C3_NoSeekWhileSeeking ==
    [][(StatusStep /\ gesture[last'.who] /\ state[last'.who].seeking) =>
        last'.seeks = <<>>]_vars

\* C4: in a scrub gesture the begin and update steps emit no update, and the
\* end step emits the gesture's one update.
C4_ScrubPublishesOnce ==
    /\ last.op = "handleSeekMouseDown" => last.emitted = <<>>
    /\ last.op = "handleSeekChange" => last.emitted = <<>>
    /\ last.op = "handleSeekMouseUp" => Len(last.emitted) = 1

\* C5: ending a scrub gesture at fraction f leaves local seeking false, seeks
\* the player to f, and emits one update that holds seeking: false and
\* played: f.
C5_SeekEnd ==
    last.op = "handleSeekMouseUp" =>
        /\ state[Who].seeking = FALSE
        /\ Len(last.seeks) = 1 /\ last.seeks[1].amount = last.arg
        /\ Len(last.emitted) = 1
        /\ "seeking" \in DOMAIN last.emitted[1] /\ last.emitted[1].seeking = FALSE
        /\ "played" \in DOMAIN last.emitted[1] /\ last.emitted[1].played = last.arg

\* C6: a media change to a playable URL overwrites url, ready, played, loaded
\* and playing with (url, false, 0, 0, true), leaves every other field as it
\* was, and emits exactly that five-field delta.
C6_MediaChangeReset ==
    [][(last'.op = "changeToURL" /\ canPlay(last'.arg)) =>
        /\ state'[last'.who] =
               [state[last'.who] EXCEPT !.url = last'.arg, !.ready = FALSE,
                                        !.played = 0, !.loaded = 0,
                                        !.playing = TRUE]
        /\ last'.emitted =
               <<[url |-> last'.arg, ready |-> FALSE, played |-> 0, loaded |-> 0,
                  playing |-> TRUE]>>]_vars

\* a playable URL was loaded over a state whose other fields had left their
\* defaults
C6_Witness ==
    /\ last.op = "changeToURL" /\ last.arg = OtherURL
    /\ state[Who].url = OtherURL /\ Len(last.emitted) = 1
    /\ state[Who].duration = 8 /\ state[Who].volume = 5 /\ state[Who].loop
    /\ state[Who].seeking

\* C7: a media change to a URL that fails canPlay ends in the logged
\* "cannot play" diagnostic, changes no field of the state, emits nothing, and
\* leaves the session mounted with its socket as it was.
C7_UnplayableURL ==
    [][(last'.op = "changeToURL" /\ ~canPlay(last'.arg)) =>
        /\ state' = state
        /\ last'.emitted = <<>>
        /\ last'.log = <<"Error, cannot play url:">>
        /\ mounted'[last'.who] = "mounted"
        /\ socket' = socket /\ listening' = listening]_vars

\* an unplayable URL was refused in a state that had left the defaults
C7_Witness ==
    /\ last.op = "changeToURL" /\ last.arg = BadURL
    /\ last.log # <<>>
    /\ state[Who].played = 3 /\ state[Who].duration = 8
    /\ socket[Who] = "connected"

\* C8: after two calls of componentWillUnmount, whatever the state of the
\* session at the first, socket.disconnect() has been called exactly once.
C8_TeardownOnce ==
    \A p \in Participants : unmounts[p] >= 2 => disconnects[p] = 1

\* C9: once the component is unmounted, the status listener never runs.
C9_NoCallbackAfterTeardown ==
    ~(last.op = "status" /\ mounted[Who] = "unmounted")

\* C10: a step taken by a session whose transport is lost or whose socket is
\* closed emits no update.
C10_NoPublishAfterDisconnected ==
    socket[Who] \in {"lost", "closed"} => last.emitted = <<>>

\* the handlers that call updateState
UpdateOps ==
    {"changeToURL", "handleSeekMouseDown", "handleSeekChange", "handleSeekMouseUp",
     "onReady", "onPlay", "onPause", "onBuffer", "onBufferEnd", "onEnded",
     "onProgress", "onDuration", "togglePlaying", "toggleLoop"}

\* the step is a handler's call updateState(last'.data)
UpdateStateStep ==
    /\ last'.op \in UpdateOps
    /\ last'.op = "onProgress" => ~state[last'.who].seeking
    /\ last'.op = "changeToURL" => canPlay(last'.arg)

\* C11: updateState(delta) merges the delta into the local state whatever the
\* channel's status; it emits exactly that delta as one update when the channel
\* is open (connecting or connected), and emits nothing when it is not (the
\* transport is lost or the socket is closed).
C11_ApplyLocalChange ==
    [][UpdateStateStep =>
        /\ \A f \in DOMAIN last'.data : state'[last'.who][f] = last'.data[f]
        /\ \A f \in Fields \ DOMAIN last'.data :
               state'[last'.who][f] = state[last'.who][f]
        /\ last'.emitted =
               IF socket[last'.who] \in {"connecting", "connected"}
               THEN <<last'.data>> ELSE <<>>]_vars

\* C12: the ended event applies and emits exactly {playing: true, played: 0}
\* when local loop is true, and exactly {playing: false} when it is false.
C12_LoopOnEnd ==
    [][last'.op = "onEnded" =>
        IF state[last'.who].loop
        THEN /\ last'.emitted = <<[playing |-> TRUE, played |-> 0]>>
             /\ state'[last'.who] =
                    [state[last'.who] EXCEPT !.playing = TRUE, !.played = 0]
        ELSE /\ last'.emitted = <<[playing |-> FALSE]>>
             /\ state'[last'.who] = [state[last'.who] EXCEPT !.playing = FALSE]]_vars

\* the media ended with loop on, paused, part-way through
C12_Witness ==
    /\ last.op = "onEnded" /\ state[Who].loop
    /\ last.emitted = <<[playing |-> TRUE, played |-> 0]>>
    /\ state[Who].playing /\ state[Who].played = 0 /\ state[Who].loaded = 4
    /\ state[Who].duration = 8

Quiet == \A p \in Participants : wire[p] = <<>> /\ inbox[p] = <<>>

Joined == \A p \in Participants : socket[p] = "connected"

\* C14: in a room of two with a relaying server, once every broadcast, the
\* senders' own echoes included, has been handled, the participants hold the
\* same value of every field, and for the fields of the broadcast that arrived
\* last that value is the broadcast's.
C14_LastWriterWins ==
    (Quiet /\ Joined) =>
        /\ \A f \in Fields : state["A"][f] = state["B"][f]
        /\ last.op = "status" =>
               \A f \in DOMAIN last.data :
                   \A p \in Participants : state[p][f] = last.data[f]

\* A and B applied and published different values of playing at the same time,
\* neither published playing again, and every broadcast has been handled
C14_Witness ==
    /\ Quiet /\ Joined
    /\ last.raced
    /\ last.op = "status" /\ "playing" \in DOMAIN last.data
    /\ state["A"].playing = last.data.playing
    /\ state["B"].playing = last.data.playing

\* C15: componentDidMount emits one update, which holds the local state's
\* values of the twelve fields, and changes no field; it is the participant's
\* first emit, and no status message is handled before it.
C15_JoinSnapshot ==
    [][/\ last'.op = "componentDidMount" =>
              /\ last'.emitted =
                     <<[url |-> state[last'.who].url,
                        playing |-> state[last'.who].playing,
                        volume |-> state[last'.who].volume,
                        muted |-> state[last'.who].muted,
                        played |-> state[last'.who].played,
                        loaded |-> state[last'.who].loaded,
                        duration |-> state[last'.who].duration,
                        playbackRate |-> state[last'.who].playbackRate,
                        loop |-> state[last'.who].loop,
                        ready |-> state[last'.who].ready,
                        buffering |-> state[last'.who].buffering,
                        seeking |-> state[last'.who].seeking]>>
              /\ state' = state
       /\ (last'.emitted # <<>> /\ last'.op # "componentDidMount") =>
              mounted[last'.who] # "constructed"
       /\ last'.op = "status" => mounted[last'.who] # "constructed"]_vars

\* the component has just mounted: its snapshot is emitted, its socket is still
\* connecting, and its state is the constructor's
C15_Witness ==
    /\ last.op = "componentDidMount"
    /\ Len(last.emitted) = 1
    /\ last.emitted[1].volume = 3 /\ last.emitted[1].muted
    /\ last.emitted[1].url = DefaultURL
    /\ socket[Who] = "connecting"
    /\ state[Who] = InitialState

\* C16: handling an inbound status delta emits no update, and neither does the
\* onPlay or onPause callback with which the player answers the change of
\* playing that the delta made.
C16_NoRepropagation ==
    [][/\ last'.op = "status" => last'.emitted = <<>>
       /\ (/\ last.op = "status" /\ "playing" \in last.news
           /\ last'.who = last.who
           /\ last'.op = IF last.data.playing THEN "onPlay" ELSE "onPause") =>
              last'.emitted = <<>>]_vars

\* C17: a mounted participant's seeking is true only while that participant
\* holds the scrub control.
C17_SeekingOnlyInGesture ==
    \A p \in Participants :
        (mounted[p] = "mounted" /\ state[p].seeking) => gesture[p]

\* C18: a status delta whose played is non-zero and more than two seconds from
\* the local played, as the state stands before the merge, makes the listener
\* seek the player once, to that fraction; the merge follows, so the step ends
\* with local played at the fraction sought; no status delta makes it seek twice.
C18_SeekBeforeMerge ==
    [][StatusStep =>
        /\ Len(last'.seeks) <= 1
        /\ (/\ "played" \in DOMAIN last'.data
            /\ last'.data.played # 0
            /\ Abs(state[last'.who].played - last'.data.played)
                   * state[last'.who].duration > 2 * PlayedDenom) =>
               last'.seeks = <<[amount |-> last'.data.played, type |-> "fraction"]>>
        /\ last'.seeks # <<>> =>
               state'[last'.who].played = last'.seeks[1].amount]_vars

\* the listener sought the player to 3/4 and merged the delta
C18_Witness ==
    /\ last.op = "status" /\ mounted[Who] = "mounted"
    /\ last.seeks = <<[amount |-> 3, type |-> "fraction"]>>
    /\ "played" \in last.news
    /\ state[Who].played = 3 /\ state[Who].duration = 8

\* C19: a progress event while local seeking is true changes no field of the
\* state and emits nothing; while seeking is false its played and loaded are
\* merged into the state and emitted as one update.
C19_ProgressGate ==
    [][last'.op = "onProgress" =>
        IF state[last'.who].seeking
        THEN state' = state /\ last'.emitted = <<>>
        ELSE /\ state'[last'.who] =
                    [state[last'.who] EXCEPT !.played = last'.data.played,
                                             !.loaded = last'.data.loaded]
             /\ last'.emitted = <<last'.data>>]_vars

\* a progress event was dropped while the participant was scrubbing elsewhere
C19_Witness ==
    /\ last.op = "onProgress" /\ state[Who].seeking /\ gesture[Who]
    /\ last.emitted = <<>>
    /\ state[Who].played = 2 /\ last.data.played = 1

\* the step merges last'.data into the state of last'.who
MergeStep == StatusStep \/ UpdateStateStep

\* the step before merged last.data into the state of last.who
Merged ==
    /\ last.op \in UpdateOps \cup {"status"}
    /\ last.op = "onProgress" => ~state[last.who].seeking
    /\ mounted[last.who] = "mounted"

\* C20: a merge of the delta that the step before has merged for the same
\* participant, by either path, leaves the state as it is; and every merge
\* leaves the fields that its delta does not carry as they were.
C20_IdempotentMerge ==
    [][MergeStep =>
        /\ (last'.repeat /\ Merged) => state' = state
        /\ \A f \in Fields \ DOMAIN last'.data :
               state'[last'.who][f] = state[last'.who][f]]_vars

\* the listener merged {played, loaded, volume} a second time, over a state
\* whose other fields had left their defaults
C20_Witness ==
    /\ last.op = "status" /\ last.repeat /\ mounted[Who] = "mounted"
    /\ SameDelta(last.data, [played |-> 3, loaded |-> 4, volume |-> 5])
    /\ last.news = {}
    /\ state[Who].played = 3 /\ state[Who].volume = 5
    /\ state[Who].duration = 8 /\ state[Who].loop

====
